---- MODULE Spec2Model ----
(***************************************************************************)
(* Model of the Redis checkpoint saver (src/redis_saver.py): the key       *)
(* scheme, the JSON+binary serializer, the scoped connection helpers and   *)
(* the blocking and suspending put / get_tuple / list operations, over a   *)
(* Redis hash store.                                                       *)
(*                                                                         *)
(* Python values are tagged records [t |-> type, v |-> payload]; strings   *)
(* are sequences of one-character strings (or whole-word tokens for the    *)
(* fixed names), byte strings are sequences of 0..255.  The connection     *)
(* returns raw bytes (redis-py default, decode_responses unset as in       *)
(* initialize_sync_pool), so reply field names are bytes.                  *)
(***************************************************************************)
EXTENDS Integers, Sequences, FiniteSets, TLC

\* The store never holds more than MaxRecords keys (bound of the model).
MaxRecords == 2

----------------------------------------------------------------------------
(* Python values *)

PyInt(n)   == [t |-> "int", v |-> n]
PyStr(s)   == [t |-> "str", v |-> s]
PyBytes(b) == [t |-> "bytes", v |-> b]
PyDict(it) == [t |-> "dict", v |-> it]
PyObject   == [t |-> "object", v |-> <<>>]
None       == [t |-> "none", v |-> <<>>]

\* Results of the operators that can raise.
Ok(val)    == [ok |-> TRUE, val |-> val]
Raise(exc) == [ok |-> FALSE, exc |-> exc]

----------------------------------------------------------------------------
(* Strings *)

\* Code points of the characters used, for Python's str comparison.
Ord == [c \in {"*", "0", "1", "2", ":", "a", "b"} |->
          CASE c = "*" -> 42 [] c = "0" -> 48 [] c = "1" -> 49 [] c = "2" -> 50
            [] c = ":" -> 58 [] c = "a" -> 97 [] c = "b" -> 98]

\* s < t for Python strings (lexicographic by code point).
RECURSIVE StrLess(_, _)
StrLess(s, t) ==
  IF t = <<>> THEN FALSE
  ELSE IF s = <<>> THEN TRUE
  ELSE IF Head(s) = Head(t) THEN StrLess(Tail(s), Tail(t))
  ELSE Ord[Head(s)] < Ord[Head(t)]

StrLeq(s, t) == s = t \/ StrLess(s, t)

\* k.split(":")[-1]
LastSegment(s) ==
  LET colons == {i \in 1..Len(s) : s[i] = ":"}
  IN  IF colons = {} THEN s
      ELSE LET last == CHOOSE i \in colons : \A j \in colons : j <= i
           IN  SubSeq(s, last + 1, Len(s))

\* Redis glob matching of a key against a pattern ("*" matches any run of
\* characters; every other character of the patterns used matches itself).
RECURSIVE GlobMatch(_, _)
GlobMatch(p, s) ==
  IF p = <<>> THEN s = <<>>
  ELSE IF Head(p) = "*"
       THEN GlobMatch(Tail(p), s) \/ (s # <<>> /\ GlobMatch(p, Tail(s)))
       ELSE s # <<>> /\ Head(s) = Head(p) /\ GlobMatch(Tail(p), Tail(s))

\* f"checkpoint:{thread_id}:{ts}"
KeyOf(thread_id, ts) == <<"checkpoint", ":">> \o thread_id \o <<":">> \o ts

\* f"checkpoint:{thread_id}:*"
PatternOf(thread_id) == <<"checkpoint", ":">> \o thread_id \o <<":", "*">>

----------------------------------------------------------------------------
(* Serializer *)

HexDigits == <<"0", "1", "2", "3", "4", "5", "6", "7",
               "8", "9", "a", "b", "c", "d", "e", "f">>

DecDigits == {HexDigits[i] : i \in 1..10}

HexVal(c) == (CHOOSE i \in 1..16 : HexDigits[i] = c) - 1

\* bytes.hex()
RECURSIVE Hex(_)
Hex(b) ==
  IF b = <<>> THEN <<>>
  ELSE <<HexDigits[(Head(b) \div 16) + 1], HexDigits[(Head(b) % 16) + 1]>>
       \o Hex(Tail(b))

\* bytes.fromhex(s): ValueError on an odd length or a non-hex character.
RECURSIVE HexDecode(_)
HexDecode(s) ==
  IF s = <<>> THEN <<>>
  ELSE <<16 * HexVal(s[1]) + HexVal(s[2])>> \o HexDecode(SubSeq(s, 3, Len(s)))

FromHex(s) ==
  IF Len(s) % 2 = 0 /\ \A i \in 1..Len(s) : \E j \in 1..16 : HexDigits[j] = s[i]
  THEN Ok(PyBytes(HexDecode(s)))
  ELSE Raise("ValueError")

\* Decimal text of a natural number and back.
RECURSIVE IntText(_)
IntText(n) ==
  IF n < 10 THEN <<HexDigits[n + 1]>>
  ELSE IntText(n \div 10) \o <<HexDigits[(n % 10) + 1]>>

RECURSIVE IntVal(_)
IntVal(s) ==
  IF s = <<>> THEN 0
  ELSE 10 * IntVal(SubSeq(s, 1, Len(s) - 1)) + HexVal(s[Len(s)])

\* default without the constructor tag: bytes written as a plain hex string.
default_plain_hex(obj) ==
  IF obj.t = "bytes"
  THEN Ok(<<"\"">> \o Hex(obj.v) \o <<"\"">>)
  ELSE Raise("TypeError")

\* JsonAndBinarySerializer._default: bytes become a constructor call
\* bytes.fromhex(hex); anything else json cannot encode is a TypeError
\* (super()._default).
default(obj) ==
  IF obj.t = "bytes"
  THEN Ok(<<"{", "lc", "constructor", "builtins.bytes", "fromhex", "\"">>
          \o Hex(obj.v) \o <<"\"", "}">>)
  ELSE Raise("TypeError")

\* json.dumps(obj, default=self._default): the token text of a value.
RECURSIVE JsonDumps(_)
RECURSIVE JsonItems(_)
JsonItems(items) ==
  IF items = <<>> THEN Ok(<<>>)
  ELSE LET val  == JsonDumps(Head(items)[2])
           rest == JsonItems(Tail(items))
       IN  IF ~val.ok THEN val
           ELSE IF ~rest.ok THEN rest
           ELSE Ok(<<"\"", Head(items)[1], "\"", ":">> \o val.val
                   \o (IF Tail(items) = <<>> THEN <<>> ELSE <<",">>)
                   \o rest.val)

JsonDumps(obj) ==
  CASE obj.t = "int"  -> Ok(IntText(obj.v))
    [] obj.t = "str"  -> Ok(<<"\"">> \o obj.v \o <<"\"">>)
    [] obj.t = "dict" -> LET items == JsonItems(obj.v)
                         IN  IF items.ok THEN Ok(<<"{">> \o items.val \o <<"}">>)
                             ELSE items
    [] OTHER          -> default(obj)

\* JsonAndBinarySerializer.dumps
dumps(obj) ==
  IF obj.t = "bytes" THEN Ok(Hex(obj.v))
  ELSE JsonDumps(obj)

\* json.loads(s, object_hook=self._reviver) over the token text.  A parse
\* result is [ok, val, rest]; the constructor object written by default() is
\* revived by calling the named method, and any failure there yields None.
Parsed(val, rest) == [ok |-> TRUE, val |-> val, rest |-> rest]

Revive(cls, method, arg) ==
  IF cls = "builtins.bytes" /\ method = "fromhex"
  THEN LET r == FromHex(arg) IN IF r.ok THEN r.val ELSE None
  ELSE None

\* Index of the first token equal to tok, 0 when there is none.
IndexOf(toks, tok) ==
  IF \E i \in 1..Len(toks) : toks[i] = tok
  THEN CHOOSE i \in 1..Len(toks) :
         toks[i] = tok /\ \A j \in 1..(i - 1) : toks[j] # tok
  ELSE 0

\* Length of the run of decimal digits at the start of toks.
RECURSIVE DigitRun(_)
DigitRun(toks) ==
  IF toks # <<>> /\ Head(toks) \in DecDigits THEN 1 + DigitRun(Tail(toks)) ELSE 0

RECURSIVE ParseValue(_)
RECURSIVE ParseItems(_, _)
ParseItems(toks, acc) ==
  IF Len(toks) < 4 \/ toks[1] # "\"" \/ toks[3] # "\"" \/ toks[4] # ":"
  THEN Raise("JSONDecodeError")
  ELSE LET val == ParseValue(SubSeq(toks, 5, Len(toks)))
       IN  IF ~val.ok THEN val
           ELSE LET items == Append(acc, <<toks[2], val.val>>)
                IN  IF val.rest = <<>> THEN Raise("JSONDecodeError")
                    ELSE IF Head(val.rest) = "}"
                         THEN Parsed(PyDict(items), Tail(val.rest))
                    ELSE IF Head(val.rest) = ","
                         THEN ParseItems(Tail(val.rest), items)
                    ELSE Raise("JSONDecodeError")

ParseValue(toks) ==
  IF toks = <<>> THEN Raise("JSONDecodeError")
  ELSE CASE Head(toks) = "{" ->
              IF Len(toks) >= 2 /\ toks[2] = "}"
              THEN Parsed(PyDict(<<>>), SubSeq(toks, 3, Len(toks)))
              ELSE IF Len(toks) >= 6 /\ toks[2] = "lc" /\ toks[3] = "constructor"
                      /\ toks[6] = "\""
              THEN LET body  == SubSeq(toks, 7, Len(toks))
                       close == IndexOf(body, "\"")
                   IN  IF close = 0 \/ Len(body) < close + 1
                          \/ body[close + 1] # "}"
                       THEN Raise("JSONDecodeError")
                       ELSE Parsed(Revive(toks[4], toks[5],
                                          SubSeq(body, 1, close - 1)),
                                   SubSeq(body, close + 2, Len(body)))
              ELSE ParseItems(Tail(toks), <<>>)
         [] Head(toks) = "\"" ->
              LET body  == Tail(toks)
                  close == IndexOf(body, "\"")
              IN  IF close = 0 THEN Raise("JSONDecodeError")
                  ELSE Parsed(PyStr(SubSeq(body, 1, close - 1)),
                              SubSeq(body, close + 1, Len(body)))
         [] Head(toks) \in DecDigits ->
              LET n == DigitRun(toks)
              IN  IF n > 1 /\ Head(toks) = "0" THEN Raise("JSONDecodeError")
                  ELSE Parsed(PyInt(IntVal(SubSeq(toks, 1, n))),
                              SubSeq(toks, n + 1, Len(toks)))
         [] OTHER -> Raise("JSONDecodeError")

\* JsonAndBinarySerializer.loads
loads(s, is_binary) ==
  IF is_binary THEN FromHex(s)
  ELSE LET r == ParseValue(s)
       IN  IF ~r.ok THEN r
           ELSE IF r.rest # <<>> THEN Raise("JSONDecodeError")
           ELSE Ok(r.val)

----------------------------------------------------------------------------
(* Redis: a keyspace of hashes.  Field names are bytes on the wire. *)

B(name) == <<"bytes", name>>
U(name) == <<"str", name>>

EmptyStore == [k \in {} |-> <<>>]

\* HSet on a keyspace that holds one hash at a time.
HSet_single(st, key, mapping) ==
  [k \in {key} |-> [f \in {B(n[2]) : n \in DOMAIN mapping} |-> mapping[U(f[2])]]]

\* HSet appending to the fields of an existing hash instead of replacing them.
HSet_append(st, key, mapping) ==
  LET new == [f \in {B(n[2]) : n \in DOMAIN mapping} |-> mapping[U(f[2])]]
  IN  [k \in DOMAIN st \cup {key} |->
         IF k = key
         THEN [f \in DOMAIN new |->
                 IF key \in DOMAIN st /\ f \in DOMAIN st[key]
                 THEN st[key][f] \o new[f] ELSE new[f]]
         ELSE st[k]]

\* HSET key field value [field value ...]: creates the hash or overwrites
\* the given fields, keeping the other fields of an existing hash.
HSet(st, key, mapping) ==
  LET new == [f \in {B(n[2]) : n \in DOMAIN mapping} |-> mapping[U(f[2])]]
      old == IF key \in DOMAIN st THEN st[key] ELSE new
  IN  [k \in DOMAIN st \cup {key} |->
         IF k = key
         THEN [f \in DOMAIN old \cup DOMAIN new |->
                 IF f \in DOMAIN new THEN new[f] ELSE old[f]]
         ELSE st[k]]

\* HGETALL key: the hash, keyed by bytes; empty when the key does not exist.
HGetAll(st, key) == IF key \in DOMAIN st THEN st[key] ELSE EmptyStore

\* KEYS pattern: the matching keys.  The order of the reply is not
\* specified; KeysReplies is every order the reply can have.
Keys(st, pattern) == {k \in DOMAIN st : GlobMatch(pattern, k)}

RECURSIVE Perms(_)
Perms(S) ==
  IF S = {} THEN {<<>>}
  ELSE UNION {{<<x>> \o p : p \in Perms(S \ {x})} : x \in S}

KeysReplies(st, pattern) == Perms(Keys(st, pattern))

----------------------------------------------------------------------------
(* Scoped connections *)

\* _get_sync_connection falling back to a client of its own when nothing
\* was supplied.
get_sync_connection_default(connection) ==
  CASE connection = "Redis" -> Ok([leased |-> FALSE])
    [] OTHER                -> Ok([leased |-> TRUE])

\* _get_sync_connection: an open connection is used as it is, a pool
\* leases a new connection that is closed on exit, anything else raises.
get_sync_connection(connection) ==
  CASE connection = "Redis"          -> Ok([leased |-> FALSE])
    [] connection = "ConnectionPool" -> Ok([leased |-> TRUE])
    [] OTHER                         -> Raise("ValueError")

\* _get_async_connection testing for the blocking pool class: an
\* asynchronous pool is not recognised.
get_async_connection_sync_pool(connection) ==
  CASE connection = "Redis" -> Ok([leased |-> FALSE])
    [] OTHER                -> Raise("ValueError")

\* _get_async_connection
get_async_connection(connection) ==
  CASE connection = "Redis"          -> Ok([leased |-> FALSE])
    [] connection = "ConnectionPool" -> Ok([leased |-> TRUE])
    [] OTHER                         -> Raise("ValueError")

----------------------------------------------------------------------------
(* Python helpers *)

\* config["configurable"].get("thread_ts"): <<>> stands for "not set"
\* (None and "" are both falsy wherever the value is tested).
ThreadTs(config) == IF "thread_ts" \in DOMAIN config THEN config.thread_ts ELSE <<>>

\* d[name] for a dict value.
Item(d, name) ==
  LET i == CHOOSE i \in 1..Len(d.v) : d.v[i][1] = name IN d.v[i][2]

Truthy(x) == ~(x.t = "none" \/ (x.t = "int" /\ x.v = 0))

\* max(all_keys, key=lambda k: k.decode().split(":")[-1]): the first key of
\* the reply whose last segment no other key's exceeds.
MaxByLastSegment(reply) ==
  LET i == CHOOSE i \in 1..Len(reply) :
             /\ \A j \in 1..Len(reply) :
                   ~StrLess(LastSegment(reply[i]), LastSegment(reply[j]))
             /\ \A j \in 1..(i - 1) :
                   StrLess(LastSegment(reply[j]), LastSegment(reply[i]))
  IN  reply[i]

\* sorted(keys, key=lambda k: k.decode().split(":")[-1], reverse=True):
\* stable, so keys with equal last segments keep their order.
RECURSIVE SortedDesc(_)
SortedDesc(keys) ==
  IF keys = <<>> THEN <<>>
  ELSE LET init == SortedDesc(SubSeq(keys, 1, Len(keys) - 1))
           x    == keys[Len(keys)]
           n    == Cardinality({i \in 1..Len(init) :
                       ~StrLess(LastSegment(init[i]), LastSegment(x))})
       IN  SubSeq(init, 1, n) \o <<x>> \o SubSeq(init, n + 1, Len(init))

\* keys[:limit]
Slice(keys, limit) == SubSeq(keys, 1, IF limit < Len(keys) THEN limit ELSE Len(keys))

\* [k for k in keys if k.decode().split(":")[-1] < before[...]["thread_ts"]]
RECURSIVE FilterBefore(_, _)
FilterBefore(keys, before_ts) ==
  IF keys = <<>> THEN <<>>
  ELSE (IF StrLess(LastSegment(Head(keys)), before_ts) THEN <<Head(keys)>> ELSE <<>>)
       \o FilterBefore(Tail(keys), before_ts)

----------------------------------------------------------------------------
(* Inputs *)

ThreadIds == {<<"a">>, <<"b">>}

\* Version markers; "2:1" has the colon of an ISO timestamp.
Versions == {<<"1">>, <<"2">>, <<"2", ":", "1">>}

Checkpoint(ts, x) ==
  PyDict(<< <<"ts", PyStr(ts)>>, <<"x", PyInt(x)>>,
            <<"blob", PyBytes(IF x = 0 THEN <<>> ELSE <<171, x>>)>> >>)

Metadata(step) == PyDict(<< <<"step", PyInt(step)>> >>)

\* A metadata holding an object json cannot encode.
BadMetadata == PyDict(<< <<"writes", PyObject>> >>)

\* A checkpoint holding an object json cannot encode.
BadCheckpoint == PyDict(<< <<"ts", PyStr(<<"1">>)>>, <<"x", PyObject>> >>)

\* The calls of put made, as (config, checkpoint, metadata), in each thread:
\* a first checkpoint "1", version "2" saved both without and with the
\* parent "1" (two contents for one key), version "2:1" following "1", a
\* checkpoint whose metadata cannot be encoded and one that cannot be
\* encoded itself.
PutInputs ==
  UNION {{<<[thread_id |-> t], Checkpoint(<<"1">>, 0), Metadata(1)>>,
          <<[thread_id |-> t], Checkpoint(<<"2">>, 0), Metadata(1)>>,
          <<[thread_id |-> t, thread_ts |-> <<"1">>], Checkpoint(<<"2">>, 12),
            Metadata(0)>>,
          <<[thread_id |-> t, thread_ts |-> <<"1">>],
            Checkpoint(<<"2", ":", "1">>, 12), Metadata(0)>>,
          <<[thread_id |-> t], Checkpoint(<<"2">>, 12), BadMetadata>>,
          <<[thread_id |-> t], BadCheckpoint, Metadata(1)>>}
         : t \in ThreadIds}

\* Configs: thread_id with or without thread_ts.
GetConfigs ==
  [thread_id : ThreadIds] \cup [thread_id : ThreadIds, thread_ts : Versions]

\* The calls of list made, as (config, before, limit).
ListInputs ==
  {i \in ([thread_id : ThreadIds] \cup {None})
         \X {None, [thread_id |-> <<"a">>, thread_ts |-> <<"2">>]}
         \X {None, PyInt(2)} : i[2] = None \/ i[3] = None}

\* (sync_connection, async_connection) given to RedisSaver.__init__.
Connections ==
  {<<"ConnectionPool", "Redis">>, <<"Redis", "ConnectionPool">>, <<"None", "None">>}

\* self.serde: the serializer applied to the objects and texts that occur
\* (tabulated once; other arguments are computed on the spot).
Objects == {i[2] : i \in PutInputs} \cup {i[3] : i \in PutInputs}
Dumped  == [obj \in Objects |-> dumps(obj)]
Texts   == {Dumped[obj].val : obj \in {o \in Objects : Dumped[o].ok}}
Loaded  == [s \in Texts |-> loads(s, FALSE)]

serde_dumps(obj) == IF obj \in Objects THEN Dumped[obj] ELSE dumps(obj)
serde_loads(s)   == IF s \in Texts THEN Loaded[s] ELSE loads(s, FALSE)

----------------------------------------------------------------------------
(* RedisSaver operations.  Each yields [store, ret, leased, closed]: the   *)
(* store after the call, what the caller gets (a value or the exception), *)
(* whether a connection was leased from a pool and whether it was closed.  *)

Error(exc)      == [t |-> "error", v |-> exc]
Returned(cfg)   == [t |-> "config", v |-> cfg]
CheckpointTuple(config, checkpoint, metadata, parent_config) ==
  [t |-> "tuple",
   v |-> [config |-> config, checkpoint |-> checkpoint,
          metadata |-> metadata, parent_config |-> parent_config]]
Yielded(tuples, exc) == [t |-> "generator", v |-> tuples, exc |-> exc]

Outcome(st, ret, cm) ==
  [store |-> st, ret |-> ret,
   leased |-> cm.ok /\ cm.val.leased, closed |-> cm.ok /\ cm.val.leased]

\* put recording the version of the checkpoint itself as its parent.
put_parent_own_ts(sync_conn, st, config, checkpoint, metadata) ==
  LET thread_id == config.thread_id
      parent_ts == Item(checkpoint, "ts").v
      ts        == Item(checkpoint, "ts").v
      key       == KeyOf(thread_id, ts)
      cm        == get_sync_connection(sync_conn)
      c         == serde_dumps(checkpoint)
      m         == serde_dumps(metadata)
  IN  IF ~cm.ok THEN Outcome(st, Error(cm.exc), cm)
      ELSE IF ~c.ok THEN Outcome(st, Error(c.exc), cm)
      ELSE IF ~m.ok THEN Outcome(st, Error(m.exc), cm)
      ELSE Outcome(HSet(st, key,
                        [f \in {U("checkpoint"), U("metadata"), U("parent_ts")} |->
                           CASE f = U("checkpoint") -> c.val
                             [] f = U("metadata")   -> m.val
                             [] OTHER               -> parent_ts]),
                   Returned([thread_id |-> thread_id, thread_ts |-> ts]), cm)

\* put returning the config it was given instead of the new version.
put_returns_input(sync_conn, st, config, checkpoint, metadata) ==
  LET thread_id == config.thread_id
      parent_ts == ThreadTs(config)
      ts        == Item(checkpoint, "ts").v
      key       == KeyOf(thread_id, ts)
      cm        == get_sync_connection(sync_conn)
      c         == serde_dumps(checkpoint)
      m         == serde_dumps(metadata)
  IN  IF ~cm.ok THEN Outcome(st, Error(cm.exc), cm)
      ELSE IF ~c.ok THEN Outcome(st, Error(c.exc), cm)
      ELSE IF ~m.ok THEN Outcome(st, Error(m.exc), cm)
      ELSE Outcome(HSet(st, key,
                        [f \in {U("checkpoint"), U("metadata"), U("parent_ts")} |->
                           CASE f = U("checkpoint") -> c.val
                             [] f = U("metadata")   -> m.val
                             [] OTHER               -> parent_ts]),
                   Returned(config), cm)

\* put updating in place the record of the version its config names.
put_key_from_config(sync_conn, st, config, checkpoint, metadata) ==
  LET thread_id == config.thread_id
      parent_ts == ThreadTs(config)
      ts        == Item(checkpoint, "ts").v
      key       == KeyOf(thread_id, IF parent_ts # <<>> THEN parent_ts ELSE ts)
      cm        == get_sync_connection(sync_conn)
      c         == serde_dumps(checkpoint)
      m         == serde_dumps(metadata)
  IN  IF ~cm.ok THEN Outcome(st, Error(cm.exc), cm)
      ELSE IF ~c.ok THEN Outcome(st, Error(c.exc), cm)
      ELSE IF ~m.ok THEN Outcome(st, Error(m.exc), cm)
      ELSE Outcome(HSet(st, key,
                        [f \in {U("checkpoint"), U("metadata"), U("parent_ts")} |->
                           CASE f = U("checkpoint") -> c.val
                             [] f = U("metadata")   -> m.val
                             [] OTHER               -> parent_ts]),
                   Returned([thread_id |-> thread_id, thread_ts |-> ts]), cm)

\* put sending each field as soon as it is encoded.
put_field_by_field(sync_conn, st, config, checkpoint, metadata) ==
  LET thread_id == config.thread_id
      parent_ts == ThreadTs(config)
      ts        == Item(checkpoint, "ts").v
      key       == KeyOf(thread_id, ts)
      cm        == get_sync_connection(sync_conn)
      c         == serde_dumps(checkpoint)
      m         == serde_dumps(metadata)
  IN  IF ~cm.ok THEN Outcome(st, Error(cm.exc), cm)
      ELSE IF ~c.ok THEN Outcome(st, Error(c.exc), cm)
      ELSE IF ~m.ok
      THEN Outcome(HSet(st, key, [f \in {U("checkpoint")} |-> c.val]),
                   Error(m.exc), cm)
      ELSE Outcome(HSet(st, key,
                        [f \in {U("checkpoint"), U("metadata"), U("parent_ts")} |->
                           CASE f = U("checkpoint") -> c.val
                             [] f = U("metadata")   -> m.val
                             [] OTHER               -> parent_ts]),
                   Returned([thread_id |-> thread_id, thread_ts |-> ts]), cm)

\* RedisSaver.put
put(sync_conn, st, config, checkpoint, metadata) ==
  LET thread_id == config.thread_id
      parent_ts == ThreadTs(config)
      ts        == Item(checkpoint, "ts").v
      key       == KeyOf(thread_id, ts)
      cm        == get_sync_connection(sync_conn)
      c         == serde_dumps(checkpoint)
      m         == serde_dumps(metadata)
  IN  IF ~cm.ok THEN Outcome(st, Error(cm.exc), cm)
      ELSE IF ~c.ok THEN Outcome(st, Error(c.exc), cm)
      ELSE IF ~m.ok THEN Outcome(st, Error(m.exc), cm)
      ELSE Outcome(HSet(st, key,
                        [f \in {U("checkpoint"), U("metadata"), U("parent_ts")} |->
                           CASE f = U("checkpoint") -> c.val
                             [] f = U("metadata")   -> m.val
                             [] OTHER               -> parent_ts]),
                   Returned([thread_id |-> thread_id, thread_ts |-> ts]), cm)

\* RedisSaver.aput
aput(async_conn, st, config, checkpoint, metadata) ==
  LET thread_id == config.thread_id
      parent_ts == ThreadTs(config)
      ts        == Item(checkpoint, "ts").v
      key       == KeyOf(thread_id, ts)
      cm        == get_async_connection(async_conn)
      c         == serde_dumps(checkpoint)
      m         == serde_dumps(metadata)
  IN  IF ~cm.ok THEN Outcome(st, Error(cm.exc), cm)
      ELSE IF ~c.ok THEN Outcome(st, Error(c.exc), cm)
      ELSE IF ~m.ok THEN Outcome(st, Error(m.exc), cm)
      ELSE Outcome(HSet(st, key,
                        [f \in {U("checkpoint"), U("metadata"), U("parent_ts")} |->
                           CASE f = U("checkpoint") -> c.val
                             [] f = U("metadata")   -> m.val
                             [] OTHER               -> parent_ts]),
                   Returned([thread_id |-> thread_id, thread_ts |-> ts]), cm)

\* get_tuple without the test for an empty HGETALL reply.
get_tuple_no_empty_test(sync_conn, st, config, reply) ==
  LET thread_id == config.thread_id
      thread_ts == ThreadTs(config)
      cm        == get_sync_connection(sync_conn)
      key       == IF thread_ts # <<>> THEN KeyOf(thread_id, thread_ts)
                   ELSE MaxByLastSegment(reply)
      checkpoint_data == HGetAll(st, key)
      checkpoint == serde_loads(checkpoint_data[B("checkpoint")])
      metadata   == serde_loads(checkpoint_data[B("metadata")])
      parent_ts  == IF B("parent_ts") \in DOMAIN checkpoint_data
                    THEN checkpoint_data[B("parent_ts")] ELSE <<>>
      parent_config == IF parent_ts # <<>>
                       THEN [thread_id |-> thread_id, thread_ts |-> parent_ts]
                       ELSE None
  IN  IF ~cm.ok THEN Outcome(st, Error(cm.exc), cm)
      ELSE IF thread_ts = <<>> /\ reply = <<>> THEN Outcome(st, None, cm)
      ELSE IF B("checkpoint") \notin DOMAIN checkpoint_data
           THEN Outcome(st, Error("KeyError"), cm)
      ELSE IF ~checkpoint.ok THEN Outcome(st, Error(checkpoint.exc), cm)
      ELSE IF B("metadata") \notin DOMAIN checkpoint_data
           THEN Outcome(st, Error("KeyError"), cm)
      ELSE IF ~metadata.ok THEN Outcome(st, Error(metadata.exc), cm)
      ELSE Outcome(st, CheckpointTuple(config, checkpoint.val, metadata.val,
                                       parent_config), cm)

\* RedisSaver.get_tuple; reply is the order in which KEYS answers.
get_tuple(sync_conn, st, config, reply) ==
  LET thread_id == config.thread_id
      thread_ts == ThreadTs(config)
      cm        == get_sync_connection(sync_conn)
      key       == IF thread_ts # <<>> THEN KeyOf(thread_id, thread_ts)
                   ELSE MaxByLastSegment(reply)
      checkpoint_data == HGetAll(st, key)
      checkpoint == serde_loads(checkpoint_data[B("checkpoint")])
      metadata   == serde_loads(checkpoint_data[B("metadata")])
      parent_ts  == IF B("parent_ts") \in DOMAIN checkpoint_data
                    THEN checkpoint_data[B("parent_ts")] ELSE <<>>
      parent_config == IF parent_ts # <<>>
                       THEN [thread_id |-> thread_id, thread_ts |-> parent_ts]
                       ELSE None
  IN  IF ~cm.ok THEN Outcome(st, Error(cm.exc), cm)
      ELSE IF thread_ts = <<>> /\ reply = <<>> THEN Outcome(st, None, cm)
      ELSE IF DOMAIN checkpoint_data = {} THEN Outcome(st, None, cm)
      ELSE IF B("checkpoint") \notin DOMAIN checkpoint_data
           THEN Outcome(st, Error("KeyError"), cm)
      ELSE IF ~checkpoint.ok THEN Outcome(st, Error(checkpoint.exc), cm)
      ELSE IF B("metadata") \notin DOMAIN checkpoint_data
           THEN Outcome(st, Error("KeyError"), cm)
      ELSE IF ~metadata.ok THEN Outcome(st, Error(metadata.exc), cm)
      ELSE Outcome(st, CheckpointTuple(config, checkpoint.val, metadata.val,
                                       parent_config), cm)

\* RedisSaver.aget_tuple
aget_tuple(async_conn, st, config, reply) ==
  LET thread_id == config.thread_id
      thread_ts == ThreadTs(config)
      cm        == get_async_connection(async_conn)
      key       == IF thread_ts # <<>> THEN KeyOf(thread_id, thread_ts)
                   ELSE MaxByLastSegment(reply)
      checkpoint_data == HGetAll(st, key)
      checkpoint == serde_loads(checkpoint_data[B("checkpoint")])
      metadata   == serde_loads(checkpoint_data[B("metadata")])
      parent_ts  == IF B("parent_ts") \in DOMAIN checkpoint_data
                    THEN checkpoint_data[B("parent_ts")] ELSE <<>>
      parent_config == IF parent_ts # <<>>
                       THEN [thread_id |-> thread_id, thread_ts |-> parent_ts]
                       ELSE None
  IN  IF ~cm.ok THEN Outcome(st, Error(cm.exc), cm)
      ELSE IF thread_ts = <<>> /\ reply = <<>> THEN Outcome(st, None, cm)
      ELSE IF DOMAIN checkpoint_data = {} THEN Outcome(st, None, cm)
      ELSE IF B("checkpoint") \notin DOMAIN checkpoint_data
           THEN Outcome(st, Error("KeyError"), cm)
      ELSE IF ~checkpoint.ok THEN Outcome(st, Error(checkpoint.exc), cm)
      ELSE IF B("metadata") \notin DOMAIN checkpoint_data
           THEN Outcome(st, Error("KeyError"), cm)
      ELSE IF ~metadata.ok THEN Outcome(st, Error(metadata.exc), cm)
      ELSE Outcome(st, CheckpointTuple(config, checkpoint.val, metadata.val,
                                       parent_config), cm)

\* The loop of list over the selected keys: a record is yielded only when
\* the reply has the str fields "checkpoint" and "metadata"; a decode
\* failure ends the generator with the exception.
RECURSIVE list_loop(_, _, _, _)
list_loop(st, keys, thread_id, acc) ==
  IF keys = <<>> THEN Yielded(acc, "")
  ELSE LET key  == Head(keys)
           data == HGetAll(st, key)
       IN  IF DOMAIN data # {} /\ U("checkpoint") \in DOMAIN data
              /\ U("metadata") \in DOMAIN data
           THEN LET thread_ts  == LastSegment(key)
                    checkpoint == serde_loads(data[U("checkpoint")])
                    metadata   == serde_loads(data[U("metadata")])
                    has_parent == U("parent_ts") \in DOMAIN data
                                  /\ data[U("parent_ts")] # <<>>
                IN  IF ~checkpoint.ok THEN Yielded(acc, checkpoint.exc)
                    ELSE IF ~metadata.ok THEN Yielded(acc, metadata.exc)
                    ELSE list_loop(st, Tail(keys), thread_id,
                           Append(acc,
                             CheckpointTuple(
                               [thread_id |-> thread_id, thread_ts |-> thread_ts],
                               checkpoint.val, metadata.val,
                               IF has_parent
                               THEN [thread_id |-> thread_id,
                                     thread_ts |-> data[U("parent_ts")]]
                               ELSE None).v))
           ELSE list_loop(st, Tail(keys), thread_id, acc)

\* f"checkpoint:{thread_id}:*" of list and alist ("*" without a config).
list_pattern(config) ==
  PatternOf(IF config # None THEN config.thread_id ELSE <<"*">>)

\* RedisSaver.list, consumed to its end; config and before are a config or
\* None, limit an int or None, reply the order in which KEYS answers.
list(sync_conn, st, config, before, limit, reply) ==
  LET thread_id == IF config # None THEN config.thread_id ELSE <<"*">>
      cm        == get_sync_connection(sync_conn)
      filtered  == IF before # None
                   THEN FilterBefore(reply, before.thread_ts) ELSE reply
      sorted    == SortedDesc(filtered)
      keys      == IF Truthy(limit) THEN Slice(sorted, limit.v) ELSE sorted
  IN  IF ~cm.ok THEN Outcome(st, Yielded(<<>>, cm.exc), cm)
      ELSE Outcome(st, list_loop(st, keys, thread_id, <<>>), cm)


\* The loop of alist over the selected keys: a record is yielded only when
\* the reply has the str fields "checkpoint" and "metadata"; a decode
\* failure ends the generator with the exception.
RECURSIVE alist_loop(_, _, _, _)
alist_loop(st, keys, thread_id, acc) ==
  IF keys = <<>> THEN Yielded(acc, "")
  ELSE LET key  == Head(keys)
           data == HGetAll(st, key)
       IN  IF DOMAIN data # {} /\ U("checkpoint") \in DOMAIN data
              /\ U("metadata") \in DOMAIN data
           THEN LET thread_ts  == LastSegment(key)
                    checkpoint == serde_loads(data[U("checkpoint")])
                    metadata   == serde_loads(data[U("metadata")])
                    has_parent == U("parent_ts") \in DOMAIN data
                                  /\ data[U("parent_ts")] # <<>>
                IN  IF ~checkpoint.ok THEN Yielded(acc, checkpoint.exc)
                    ELSE IF ~metadata.ok THEN Yielded(acc, metadata.exc)
                    ELSE alist_loop(st, Tail(keys), thread_id,
                           Append(acc,
                             CheckpointTuple(
                               [thread_id |-> thread_id, thread_ts |-> thread_ts],
                               checkpoint.val, metadata.val,
                               IF has_parent
                               THEN [thread_id |-> thread_id,
                                     thread_ts |-> data[U("parent_ts")]]
                               ELSE None).v))
           ELSE alist_loop(st, Tail(keys), thread_id, acc)

\* RedisSaver.alist, consumed to its end.
alist(async_conn, st, config, before, limit, reply) ==
  LET thread_id == IF config # None THEN config.thread_id ELSE <<"*">>
      cm        == get_async_connection(async_conn)
      filtered  == IF before # None
                   THEN FilterBefore(reply, before.thread_ts) ELSE reply
      sorted    == SortedDesc(filtered)
      keys      == IF Truthy(limit) THEN Slice(sorted, limit.v) ELSE sorted
  IN  IF ~cm.ok THEN Outcome(st, Yielded(<<>>, cm.exc), cm)
      ELSE Outcome(st, alist_loop(st, keys, thread_id, <<>>), cm)


----------------------------------------------------------------------------
(* State *)

VARIABLES
  sync_connection,   \* RedisSaver.sync_connection: kind of the object
  async_connection,  \* RedisSaver.async_connection
  store,             \* the Redis keyspace: key -> hash
  saved,             \* history: key -> arguments of the last put that wrote it
  lastOp,            \* the last call made, with its arguments and outcome
  calls,             \* the call each caller has in progress, with its locals
  leases,            \* callers holding an open client leased from a pool
  sharedClosed,      \* close() was called on a connection the caller supplied
  completed,         \* keys whose save has returned to its caller
  faults,            \* requests that failed with redis.ConnectionError
  ncalls             \* calls started

\* The state of the calls in progress (used when requests interleave).
inflight == <<calls, leases, sharedClosed, completed, faults, ncalls>>

vars == <<sync_connection, async_connection, store, saved, lastOp, inflight>>

\* Two callers: a thread using the blocking methods and a coroutine using
\* the suspending ones.
Procs == {1, 2}

Idle == [pc |-> "idle", op |-> "none"]

NoCalls ==
  /\ calls = [p \in Procs |-> Idle]
  /\ leases = {}
  /\ sharedClosed = FALSE
  /\ completed = {}
  /\ faults = 0
  /\ ncalls = 0

Init ==
  /\ \E c \in Connections : sync_connection = c[1] /\ async_connection = c[2]
  /\ store = EmptyStore
  /\ saved = EmptyStore
  /\ lastOp = [op |-> "init"]
  /\ NoCalls

\* The history entry a successful put leaves for its key.
Record(o, config, checkpoint, metadata) ==
  IF o.ret.t = "config"
  THEN LET key == KeyOf(config.thread_id, Item(checkpoint, "ts").v)
       IN  [k \in DOMAIN saved \cup {key} |->
              IF k = key
              THEN [config |-> config, checkpoint |-> checkpoint,
                    metadata |-> metadata]
              ELSE saved[k]]
  ELSE saved

HasRoom(config, checkpoint) ==
  \/ KeyOf(config.thread_id, Item(checkpoint, "ts").v) \in DOMAIN store
  \/ Cardinality(DOMAIN store) < MaxRecords

Put(config, checkpoint, metadata) ==
  /\ HasRoom(config, checkpoint)
  /\ LET o == put(sync_connection, store, config, checkpoint, metadata)
     IN  /\ store' = o.store
         /\ saved' = Record(o, config, checkpoint, metadata)
         /\ lastOp' = [op |-> "put", config |-> config, checkpoint |-> checkpoint,
                       metadata |-> metadata, ret |-> o.ret,
                       leased |-> o.leased, closed |-> o.closed]
  /\ UNCHANGED <<sync_connection, async_connection, inflight>>

APut(config, checkpoint, metadata) ==
  /\ HasRoom(config, checkpoint)
  /\ LET o == aput(async_connection, store, config, checkpoint, metadata)
     IN  /\ store' = o.store
         /\ saved' = Record(o, config, checkpoint, metadata)
         /\ lastOp' = [op |-> "aput", config |-> config, checkpoint |-> checkpoint,
                       metadata |-> metadata, ret |-> o.ret,
                       leased |-> o.leased, closed |-> o.closed]
  /\ UNCHANGED <<sync_connection, async_connection, inflight>>

\* The replies KEYS can give to get_tuple: it is only asked without thread_ts.
GetReplies(config) ==
  IF ThreadTs(config) # <<>> THEN {<<>>}
  ELSE KeysReplies(store, PatternOf(config.thread_id))

GetTuple(config) ==
  /\ \E reply \in GetReplies(config) :
       LET o == get_tuple(sync_connection, store, config, reply)
       IN  /\ store' = o.store
           /\ lastOp' = [op |-> "get_tuple", config |-> config, ret |-> o.ret,
                         leased |-> o.leased, closed |-> o.closed]
  /\ UNCHANGED <<sync_connection, async_connection, saved, inflight>>

AGetTuple(config) ==
  /\ \E reply \in GetReplies(config) :
       LET o == aget_tuple(async_connection, store, config, reply)
       IN  /\ store' = o.store
           /\ lastOp' = [op |-> "aget_tuple", config |-> config, ret |-> o.ret,
                         leased |-> o.leased, closed |-> o.closed]
  /\ UNCHANGED <<sync_connection, async_connection, saved, inflight>>

List(config, before, limit) ==
  /\ \E reply \in KeysReplies(store, list_pattern(config)) :
       LET o == list(sync_connection, store, config, before, limit, reply)
       IN  /\ store' = o.store
           /\ lastOp' = [op |-> "list", config |-> config, before |-> before,
                         limit |-> limit, ret |-> o.ret,
                         leased |-> o.leased, closed |-> o.closed]
  /\ UNCHANGED <<sync_connection, async_connection, saved, inflight>>

AList(config, before, limit) ==
  /\ \E reply \in KeysReplies(store, list_pattern(config)) :
       LET o == alist(async_connection, store, config, before, limit, reply)
       IN  /\ store' = o.store
           /\ lastOp' = [op |-> "alist", config |-> config, before |-> before,
                         limit |-> limit, ret |-> o.ret,
                         leased |-> o.leased, closed |-> o.closed]
  /\ UNCHANGED <<sync_connection, async_connection, saved, inflight>>

Next ==
  \/ \E i \in PutInputs : Put(i[1], i[2], i[3])
  \/ \E i \in PutInputs : APut(i[1], i[2], i[3])
  \/ \E config \in GetConfigs : GetTuple(config)
  \/ \E config \in GetConfigs : AGetTuple(config)
  \/ \E i \in ListInputs : List(i[1], i[2], i[3])
  \/ \E i \in ListInputs : AList(i[1], i[2], i[3])

Spec == Init /\ [][Next]_vars

----------------------------------------------------------------------------
(* Interleaved execution: each call is a sequence of steps - entering the  *)
(* scoped connection, one step per store request, and leaving the scope -  *)
(* and the steps of the two callers interleave.  A request can fail with   *)
(* redis.ConnectionError.                                                  *)

\* Calls started and failing requests in a run (bounds of the model).
MaxCalls == 3
MaxFaults == 1

Blocking == {"put", "get_tuple", "list"}

\* The method a caller uses for a save, a load or a listing.
Method(p, kind) ==
  CASE kind = "save" -> IF p = 1 THEN "put" ELSE "aput"
    [] kind = "load" -> IF p = 1 THEN "get_tuple" ELSE "aget_tuple"
    [] OTHER         -> IF p = 1 THEN "list" ELSE "alist"

\* The calls made when requests interleave: saves of versions "2" (two
\* contents) and "2:1" of thread a and one that cannot be encoded, loads of
\* the latest version and of version "2", the listing of the thread.
CallPuts ==
  {i \in PutInputs : i[1].thread_id = <<"a">> /\ Item(i[2], "ts").v # <<"1">>}

CallGets ==
  {[thread_id |-> <<"a">>], [thread_id |-> <<"a">>, thread_ts |-> <<"2">>]}

CallLists == {<<[thread_id |-> <<"a">>], None, None>>}

\* The frame of a call: arguments, position and local variables.
Frame(op, config, checkpoint, metadata, before, limit) ==
  [pc |-> "enter", op |-> op, config |-> config, checkpoint |-> checkpoint,
   metadata |-> metadata, before |-> before, limit |-> limit,
   conn |-> "None",      \* the object "with ... as conn" binds
   owned |-> "None",     \* conn of the context manager: the client it created
   exc |-> "",           \* the exception leaving the body
   keys |-> <<>>,        \* all_keys / the keys still to visit
   acc |-> <<>>,         \* tuples yielded so far
   ret |-> None,
   nreq |-> 0,           \* store requests issued
   began |-> completed]  \* saves that had returned when the call began

StartCall(p, frame) ==
  /\ calls[p].pc = "idle"
  /\ ncalls < MaxCalls
  /\ calls' = [calls EXCEPT ![p] = frame]
  /\ ncalls' = ncalls + 1
  /\ UNCHANGED <<sync_connection, async_connection, store, saved, lastOp,
                 leases, sharedClosed, completed, faults>>

CallPut(p, config, checkpoint, metadata) ==
  /\ HasRoom(config, checkpoint)
  /\ StartCall(p, Frame(Method(p, "save"), config, checkpoint, metadata, None, None))

CallGet(p, config) ==
  StartCall(p, Frame(Method(p, "load"), config, None, None, None, None))

CallList(p, config, before, limit) ==
  StartCall(p, Frame(Method(p, "history"), config, None, None, before, limit))

\* "with _get_sync_connection(self.sync_connection) as conn" (or the async
\* one), up to the yield: an open connection is bound as it is, a pool
\* gives a new client, anything else raises before the body is entered.
Enter(p) ==
  /\ calls[p].pc = "enter"
  /\ LET c  == calls[p]
         cm == IF c.op \in Blocking THEN get_sync_connection(sync_connection)
               ELSE get_async_connection(async_connection)
     IN  IF cm.ok
         THEN /\ calls' = [calls EXCEPT ![p] =
                 [c EXCEPT !.pc = "body",
                           !.conn = IF cm.val.leased THEN "client" ELSE "connection",
                           !.owned = IF cm.val.leased THEN "client" ELSE "None"]]
              /\ leases' = IF cm.val.leased THEN leases \cup {p} ELSE leases
         ELSE /\ calls' = [calls EXCEPT ![p] =
                 [c EXCEPT !.pc = "exit", !.exc = cm.exc]]
              /\ UNCHANGED leases
  /\ UNCHANGED <<sync_connection, async_connection, store, saved, lastOp,
                 sharedClosed, completed, faults, ncalls>>

\* put sending one HSET for each field.
put_hsets_per_field(c, m, parent_ts) ==
  << [f \in {U("checkpoint")} |-> c], [f \in {U("metadata")} |-> m],
     [f \in {U("parent_ts")} |-> parent_ts] >>

\* The HSET requests of put and aput: conn.hset(key, mapping={...}) is one
\* request carrying the three fields.
put_hsets(c, m, parent_ts) ==
  << [f \in {U("checkpoint"), U("metadata"), U("parent_ts")} |->
        CASE f = U("checkpoint") -> c
          [] f = U("metadata")   -> m
          [] OTHER               -> parent_ts] >>

\* The body of put / aput: the mapping is built (both values encoded), then
\* sent.  An encoding failure leaves the body before any request.
PutRequest(p, lost) ==
  /\ calls[p].pc = "body" /\ calls[p].op \in {"put", "aput"}
  /\ LET c   == calls[p]
         ts  == Item(c.checkpoint, "ts").v
         key == KeyOf(c.config.thread_id, ts)
         ck  == serde_dumps(c.checkpoint)
         m   == serde_dumps(c.metadata)
     IN  IF ~ck.ok \/ ~m.ok
         THEN /\ ~lost
              /\ calls' = [calls EXCEPT ![p] =
                   [c EXCEPT !.pc = "exit",
                             !.exc = IF ~ck.ok THEN ck.exc ELSE m.exc]]
              /\ UNCHANGED <<store, saved, faults>>
         ELSE LET reqs == put_hsets(ck.val, m.val, ThreadTs(c.config))
                  i    == c.nreq + 1
                  last == i = Len(reqs)
              IN  /\ lost => faults < MaxFaults
                  /\ faults' = IF lost THEN faults + 1 ELSE faults
                  /\ store' = HSet(store, key, reqs[i])
                  /\ saved' = IF last
                              THEN Record([ret |-> Returned(<<>>)], c.config,
                                          c.checkpoint, c.metadata)
                              ELSE saved
                  /\ calls' = [calls EXCEPT ![p] =
                       [c EXCEPT !.nreq = i,
                                 !.pc = IF last \/ lost THEN "exit" ELSE "body",
                                 !.exc = IF lost THEN "ConnectionError" ELSE "",
                                 !.ret = IF last /\ ~lost
                                         THEN Returned([thread_id |-> c.config.thread_id,
                                                        thread_ts |-> ts])
                                         ELSE None]]
  /\ UNCHANGED <<sync_connection, async_connection, lastOp, leases,
                 sharedClosed, completed, ncalls>>

\* get_tuple / aget_tuple without thread_ts: conn.keys(pattern).
GetKeys(p) ==
  /\ calls[p].pc = "body" /\ calls[p].op \in {"get_tuple", "aget_tuple"}
  /\ ThreadTs(calls[p].config) = <<>>
  /\ \E reply \in KeysReplies(store, PatternOf(calls[p].config.thread_id)) :
       calls' = [calls EXCEPT ![p] =
         [calls[p] EXCEPT !.keys = reply, !.nreq = @ + 1,
                          !.pc = IF reply = <<>> THEN "exit" ELSE "hgetall"]]
  /\ UNCHANGED <<sync_connection, async_connection, store, saved, lastOp,
                 leases, sharedClosed, completed, faults, ncalls>>

\* get_tuple / aget_tuple: conn.hgetall(key) for the key chosen (from the
\* reply KEYS gave earlier, or from thread_ts) and the decoding of the record.
GetRecord(p) ==
  /\ calls[p].op \in {"get_tuple", "aget_tuple"}
  /\ \/ calls[p].pc = "hgetall"
     \/ calls[p].pc = "body" /\ ThreadTs(calls[p].config) # <<>>
  /\ LET c == calls[p]
         o == IF c.op = "get_tuple"
              THEN get_tuple(sync_connection, store, c.config, c.keys)
              ELSE aget_tuple(async_connection, store, c.config, c.keys)
     IN  /\ calls' = [calls EXCEPT ![p] =
              [c EXCEPT !.nreq = @ + 1, !.pc = "exit", !.keys = <<>>,
                        !.ret = IF o.ret.t = "error" THEN None ELSE o.ret,
                        !.exc = IF o.ret.t = "error" THEN o.ret.v ELSE ""]]
         /\ store' = o.store
  /\ UNCHANGED <<sync_connection, async_connection, saved, lastOp,
                 leases, sharedClosed, completed, faults, ncalls>>

\* The keys list and alist visit: filtered by before, sorted, cut at limit.
list_keys(reply, before, limit) ==
  LET filtered == IF before # None
                  THEN FilterBefore(reply, before.thread_ts) ELSE reply
      sorted   == SortedDesc(filtered)
  IN  IF Truthy(limit) THEN Slice(sorted, limit.v) ELSE sorted

\* list / alist: conn.keys(pattern).
ListKeys(p) ==
  /\ calls[p].pc = "body" /\ calls[p].op \in {"list", "alist"}
  /\ \E reply \in KeysReplies(store, list_pattern(calls[p].config)) :
       LET keys == list_keys(reply, calls[p].before, calls[p].limit)
       IN  calls' = [calls EXCEPT ![p] =
             [calls[p] EXCEPT !.keys = keys, !.nreq = @ + 1,
                              !.pc = IF keys = <<>> THEN "exit" ELSE "loop"]]
  /\ UNCHANGED <<sync_connection, async_connection, store, saved, lastOp,
                 leases, sharedClosed, completed, faults, ncalls>>

\* list / alist: one turn of the loop, conn.hgetall(key) and the yield.
ListRecord(p) ==
  /\ calls[p].pc = "loop"
  /\ LET c == calls[p]
         thread_id == IF c.config # None THEN c.config.thread_id ELSE <<"*">>
         y == IF c.op = "list"
              THEN list_loop(store, <<Head(c.keys)>>, thread_id, c.acc)
              ELSE alist_loop(store, <<Head(c.keys)>>, thread_id, c.acc)
         rest == IF y.exc # "" THEN <<>> ELSE Tail(c.keys)
     IN  calls' = [calls EXCEPT ![p] =
           [c EXCEPT !.acc = y.v, !.exc = y.exc, !.keys = rest,
                     !.nreq = @ + 1,
                     !.pc = IF rest = <<>> THEN "exit" ELSE "loop"]]
  /\ UNCHANGED <<sync_connection, async_connection, store, saved, lastOp,
                 leases, sharedClosed, completed, faults, ncalls>>

\* A request is not delivered: redis.ConnectionError is raised in the body.
RequestFails(p) ==
  /\ faults < MaxFaults
  /\ calls[p].pc \in {"body", "hgetall", "loop"}
  /\ calls[p].op \in {"put", "aput"} =>
       serde_dumps(calls[p].checkpoint).ok /\ serde_dumps(calls[p].metadata).ok
  /\ calls' = [calls EXCEPT ![p] =
       [calls[p] EXCEPT !.exc = "ConnectionError", !.pc = "exit",
                        !.keys = <<>>, !.nreq = @ + 1]]
  /\ faults' = faults + 1
  /\ UNCHANGED <<sync_connection, async_connection, store, saved, lastOp,
                 leases, sharedClosed, completed, ncalls>>

\* The context manager closing its client only when the body ended normally.
sync_connection_exit_on_return(connection, conn, exc) ==
  IF exc = "" THEN conn ELSE "None"

\* _get_sync_connection after the yield: ConnectionError is logged and
\* raised again, and "finally: if conn: conn.close()" closes the client the
\* manager created (connection is the object it was given).  The result is
\* the object close() is called on.
sync_connection_exit(connection, conn, exc) == conn

\* _get_async_connection after the yield.
async_connection_exit(connection, conn, exc) == conn

\* Leaving the with block (when the call had entered it): the call then
\* returns c.ret, the tuples c.acc of a listing, or raises c.exc.
Exit(p) ==
  /\ calls[p].pc = "exit"
  /\ LET c == calls[p]
         closing == IF c.op \in Blocking
                    THEN sync_connection_exit(c.conn, c.owned, c.exc)
                    ELSE async_connection_exit(c.conn, c.owned, c.exc)
     IN  /\ leases' = IF closing = "client" THEN leases \ {p} ELSE leases
         /\ sharedClosed' = (sharedClosed \/ closing = "connection")
         /\ completed' = IF c.op \in {"put", "aput"} /\ c.exc = ""
                         THEN completed \cup
                                {KeyOf(c.config.thread_id, Item(c.checkpoint, "ts").v)}
                         ELSE completed
         /\ lastOp' = [op |-> c.op, exc |-> c.exc, nreq |-> c.nreq,
                       leased |-> c.owned = "client", closed |-> closing]
         /\ calls' = [calls EXCEPT ![p] = Idle]
  /\ UNCHANGED <<sync_connection, async_connection, store, saved, faults, ncalls>>

\* (sync_connection, async_connection) of the savers whose calls interleave:
\* two pools, or an open connection for one of the modes only.
CallConnections ==
  {<<"ConnectionPool", "ConnectionPool">>, <<"Redis", "None">>, <<"None", "Redis">>}

CallsInit ==
  /\ \E c \in CallConnections : sync_connection = c[1] /\ async_connection = c[2]
  /\ store = EmptyStore
  /\ saved = EmptyStore
  /\ lastOp = [op |-> "init"]
  /\ NoCalls

CallsNext ==
  \E p \in Procs :
    \/ \E i \in CallPuts : CallPut(p, i[1], i[2], i[3])
    \/ \E config \in CallGets : CallGet(p, config)
    \/ \E i \in CallLists : CallList(p, i[1], i[2], i[3])
    \/ Enter(p)
    \/ \E lost \in BOOLEAN : PutRequest(p, lost)
    \/ GetKeys(p)
    \/ GetRecord(p)
    \/ ListKeys(p)
    \/ ListRecord(p)
    \/ RequestFails(p)
    \/ Exit(p)

CallsSpec == CallsInit /\ [][CallsNext]_vars

----------------------------------------------------------------------------
(* Sessions whose ids share a prefix: thread_id is any string the caller   *)
(* puts in the config, and nothing in the key scheme escapes it.           *)

SessionIds == {<<"a">>, <<"a", ":", "2">>}

\* Session "a" saves checkpoints with x = 0, session "a:2" with x = 12.
SessionPuts ==
  {<<[thread_id |-> <<"a">>], Checkpoint(v, 0), Metadata(1)>> : v \in {<<"1">>, <<"2">>}}
  \cup {<<[thread_id |-> <<"a", ":", "2">>], Checkpoint(v, 12), Metadata(0)>> :
          v \in {<<"1">>, <<"2">>}}

SessionGets ==
  [thread_id : SessionIds] \cup [thread_id : SessionIds, thread_ts : {<<"1">>}]

SessionLists == {<<[thread_id |-> t], None, None>> : t \in SessionIds}

SessionsInit ==
  /\ sync_connection = "Redis" /\ async_connection = "ConnectionPool"
  /\ store = EmptyStore
  /\ saved = EmptyStore
  /\ lastOp = [op |-> "init"]
  /\ NoCalls

SessionsNext ==
  \/ \E i \in SessionPuts : Put(i[1], i[2], i[3])
  \/ \E i \in SessionPuts : APut(i[1], i[2], i[3])
  \/ \E config \in SessionGets : GetTuple(config)
  \/ \E config \in SessionGets : AGetTuple(config)
  \/ \E i \in SessionLists : List(i[1], i[2], i[3])
  \/ \E i \in SessionLists : AList(i[1], i[2], i[3])

SessionsSpec == SessionsInit /\ [][SessionsNext]_vars

----------------------------------------------------------------------------
(* Vocabulary of the properties *)

Puts  == {"put", "aput"}
Gets  == {"get_tuple", "aget_tuple"}
Lists == {"list", "alist"}

\* The saver has a connection or a pool for the access mode of the call.
Usable(op) ==
  IF op \in {"put", "get_tuple", "list"}
  THEN sync_connection # "None" ELSE async_connection # "None"

\* The versions saved so far for a thread, and the key of one of them.
ThreadVersions(thread_id) ==
  {Item(saved[k].checkpoint, "ts").v :
     k \in {j \in DOMAIN saved : saved[j].config.thread_id = thread_id}}

SavedKey(thread_id, ts) ==
  CHOOSE k \in DOMAIN saved :
    saved[k].config.thread_id = thread_id /\ Item(saved[k].checkpoint, "ts").v = ts

\* The lexically greatest of a non-empty set of versions, and the set in
\* strictly descending order.
MaxVersion(S) == CHOOSE v \in S : \A w \in S : StrLeq(w, v)

RECURSIVE Descending(_)
Descending(S) ==
  IF S = {} THEN <<>> ELSE <<MaxVersion(S)>> \o Descending(S \ {MaxVersion(S)})

\* The versions carried by the tuples a listing yielded, in order.
YieldedVersions(ret) == [i \in 1..Len(ret.v) |-> ret.v[i].config.thread_ts]

----------------------------------------------------------------------------
(* Properties *)

\* C1 (round trip): a load of the config returned by the last save to a key
\* returns a tuple whose checkpoint and metadata equal the saved ones,
\* embedded bytes included.
C1_RoundTrip ==
  (/\ lastOp.op \in Gets
   /\ ThreadTs(lastOp.config) # <<>>
   /\ lastOp.config.thread_ts \in ThreadVersions(lastOp.config.thread_id))
  => LET s == saved[SavedKey(lastOp.config.thread_id, lastOp.config.thread_ts)]
     IN  /\ lastOp.ret.t = "tuple"
         /\ lastOp.ret.v.checkpoint = s.checkpoint
         /\ lastOp.ret.v.metadata = s.metadata

\* A load by version returned a checkpoint with a non-empty binary payload,
\* saved under a version with a colon.
C1_Witness ==
  /\ lastOp.op \in Gets
  /\ lastOp.config = [thread_id |-> <<"a">>, thread_ts |-> <<"2", ":", "1">>]
  /\ lastOp.ret.t = "tuple"
  /\ Item(lastOp.ret.v.checkpoint, "blob") = PyBytes(<<171, 12>>)

\* C2 (latest resolution), as claimed: a load without version, for a thread
\* with saved versions, returns the checkpoint saved under the lexically
\* greatest of them.
C2_LatestIsGreatest ==
  (/\ lastOp.op \in Gets
   /\ ThreadTs(lastOp.config) = <<>>
   /\ ThreadVersions(lastOp.config.thread_id) # {})
  => /\ lastOp.ret.t = "tuple"
     /\ lastOp.ret.v.checkpoint =
          saved[SavedKey(lastOp.config.thread_id,
                         MaxVersion(ThreadVersions(lastOp.config.thread_id)))].checkpoint

\* C3 (history listing), as claimed: a listing of a thread without before and
\* limit yields one tuple per saved version, in strictly descending order.
C3_HistoryDescending ==
  (/\ lastOp.op \in Lists
   /\ lastOp.config # None /\ lastOp.before = None /\ lastOp.limit = None
   /\ lastOp.ret.exc = "")
  => YieldedVersions(lastOp.ret) =
       Descending(ThreadVersions(lastOp.config.thread_id))

\* C4 (before filter), as claimed: a listing with before = b yields no
\* version >= b and every saved version of the thread below b.
C4_BeforeFilter ==
  (/\ lastOp.op \in Lists
   /\ lastOp.config # None /\ lastOp.before # None /\ lastOp.limit = None
   /\ lastOp.ret.exc = "")
  => LET yielded == {YieldedVersions(lastOp.ret)[i] : i \in 1..Len(lastOp.ret.v)}
     IN  yielded = {v \in ThreadVersions(lastOp.config.thread_id) :
                      StrLess(v, lastOp.before.thread_ts)}

\* C5 (limit), as claimed: a listing with limit n of a thread with k saved
\* versions yields exactly the min(n, k) most recent ones.
C5_LimitMostRecent ==
  (/\ lastOp.op \in Lists
   /\ lastOp.config # None /\ lastOp.before = None /\ lastOp.limit # None
   /\ lastOp.ret.exc = "")
  => LET all == Descending(ThreadVersions(lastOp.config.thread_id))
         n   == IF lastOp.limit.v < Len(all) THEN lastOp.limit.v ELSE Len(all)
     IN  YieldedVersions(lastOp.ret) = SubSeq(all, 1, n)

\* C6 (parent chain): the tuple read back for a checkpoint has a
\* parent_config iff the config of its save carried a version, and then the
\* parent_config is that version in the thread of the checkpoint.
C6_ParentChain ==
  (lastOp.op \in Gets /\ lastOp.ret.t = "tuple")
  => LET thread_id == lastOp.config.thread_id
         s == saved[SavedKey(thread_id, Item(lastOp.ret.v.checkpoint, "ts").v)]
     IN  /\ Item(lastOp.ret.v.checkpoint, "ts").v \in ThreadVersions(thread_id)
         /\ (lastOp.ret.v.parent_config # None) <=> (ThreadTs(s.config) # <<>>)
         /\ ThreadTs(s.config) # <<>> =>
              lastOp.ret.v.parent_config =
                [thread_id |-> thread_id, thread_ts |-> s.config.thread_ts]

\* A load returned the tuple of version "2:1" of thread b with the
\* parent_config of version "1".
C6_Witness ==
  /\ lastOp.op \in Gets /\ lastOp.ret.t = "tuple"
  /\ lastOp.ret.v.parent_config = [thread_id |-> <<"b">>, thread_ts |-> <<"1">>]
  /\ Item(lastOp.ret.v.checkpoint, "ts").v = <<"2", ":", "1">>

\* C7 (absence): with a usable connection, a load for a thread with no saved
\* record (version unset) or for a (thread, version) with no record returns
\* None, raises nothing and leaves the store unchanged.
NoRecord(config) ==
  IF ThreadTs(config) # <<>>
  THEN config.thread_ts \notin ThreadVersions(config.thread_id)
  ELSE ThreadVersions(config.thread_id) = {}

C7_Absence ==
  [][(lastOp'.op \in Gets /\ Usable(lastOp'.op) /\ NoRecord(lastOp'.config))
     => (lastOp'.ret = None /\ store' = store)]_vars

\* A load of a version that was not saved, in a thread that has another
\* version, returned None.
C7_Witness ==
  /\ lastOp.op \in Gets /\ lastOp.ret = None
  /\ ThreadTs(lastOp.config) # <<>>
  /\ ThreadVersions(lastOp.config.thread_id) # {}

\* C8 (frame of save): a successful save writes the record of key
\* (config thread, checkpoint version) and nothing else, and returns the
\* config of that thread and version.
C8_SaveFrame ==
  [][(lastOp'.op \in Puts /\ lastOp'.ret.t = "config" /\ vars' # vars)
     => LET thread_id == lastOp'.config.thread_id
            ts  == Item(lastOp'.checkpoint, "ts").v
            key == KeyOf(thread_id, ts)
        IN  /\ DOMAIN store' = DOMAIN store \cup {key}
            /\ \A k \in DOMAIN store : k # key => store'[k] = store[k]
            /\ DOMAIN store'[key] = {B("checkpoint"), B("metadata"), B("parent_ts")}
            /\ lastOp'.ret.v = [thread_id |-> thread_id, thread_ts |-> ts]]_vars

\* A save made with a config of version "1" wrote version "2" next to a
\* record of the other thread and returned version "2".
C8_Witness ==
  /\ lastOp.op \in Puts /\ lastOp.ret.t = "config"
  /\ ThreadTs(lastOp.config) = <<"1">>
  /\ lastOp.ret.v = [thread_id |-> <<"a">>, thread_ts |-> <<"2">>]
  /\ ThreadVersions(<<"b">>) # {}

\* C9 (idempotent save): after a successful save, the same save made again
\* leaves the store as it is and returns the same config.
C9_Idempotent ==
  (lastOp.op \in Puts /\ lastOp.ret.t = "config")
  => LET o == IF lastOp.op = "put"
              THEN put(sync_connection, store, lastOp.config,
                       lastOp.checkpoint, lastOp.metadata)
              ELSE aput(async_connection, store, lastOp.config,
                        lastOp.checkpoint, lastOp.metadata)
     IN  o.store = store /\ o.ret = lastOp.ret

\* A save with a parent version has been made into a store that holds
\* another record.
C9_Witness ==
  /\ lastOp.op \in Puts /\ lastOp.ret.t = "config"
  /\ ThreadTs(lastOp.config) # <<>>
  /\ Cardinality(DOMAIN store) > 1

\* C10 (blocking and suspending variants agree): with usable connections,
\* put/aput, get_tuple/aget_tuple and list/alist give the same result and
\* the same store, from the current store, for the same arguments and the
\* same KEYS reply.
Same(o1, o2) == o1.store = o2.store /\ o1.ret = o2.ret

C10_VariantsAgree ==
  (Usable("put") /\ Usable("aput"))
  => /\ \A i \in PutInputs :
          Same(put(sync_connection, store, i[1], i[2], i[3]),
               aput(async_connection, store, i[1], i[2], i[3]))
     /\ \A config \in GetConfigs : \A reply \in GetReplies(config) :
          Same(get_tuple(sync_connection, store, config, reply),
               aget_tuple(async_connection, store, config, reply))
     /\ \A i \in ListInputs : \A reply \in KeysReplies(store, list_pattern(i[1])) :
          Same(list(sync_connection, store, i[1], i[2], i[3], reply),
               alist(async_connection, store, i[1], i[2], i[3], reply))

\* A suspending load returned a tuple from a store of several records.
C10_Witness ==
  /\ lastOp.op = "aget_tuple" /\ lastOp.ret.t = "tuple"
  /\ Cardinality(DOMAIN store) > 1

\* The connection object or pool the method of a call is given.
Supplied(op) == IF op \in Blocking THEN sync_connection ELSE async_connection

\* C11 (scoped connection release): a pool client is held only by the call
\* in progress that leased it; when a call finishes, on any exit path, it
\* had leased a client iff its connection is a pool, that client is closed
\* and no longer outstanding, and no connection supplied by the caller has
\* been closed.
C11_ScopedRelease ==
  [][\A p \in Procs :
       /\ p \in leases =>
            calls[p].pc \notin {"idle", "enter"} /\ calls[p].owned = "client"
       /\ (calls[p].pc = "exit" /\ calls'[p].pc = "idle") =>
            /\ p \in leases <=> Supplied(calls[p].op) = "ConnectionPool"
            /\ p \notin leases'
            /\ lastOp'.closed = "client" <=> p \in leases
            /\ ~sharedClosed']_vars

\* A blocking save whose HSET failed with ConnectionError has finished: its
\* leased client was closed while the other caller holds a client of its own.
C11_Witness ==
  /\ lastOp.op = "put" /\ lastOp.exc = "ConnectionError"
  /\ lastOp.leased /\ lastOp.closed = "client"
  /\ calls[1].pc = "idle" /\ leases = {2}
  /\ calls[2].pc \in {"body", "hgetall"}

\* C12 (configuration error): a call whose method was given neither a
\* connection nor a pool issues no store request and leases nothing, none of
\* its steps changes the store, and it ends raising the configuration error
\* (ValueError).
C12_ConfigurationError ==
  [][\A p \in Procs :
       (calls[p].pc # "idle" /\ Supplied(calls[p].op) = "None") =>
         /\ calls[p].pc \in {"enter", "exit"}
         /\ calls[p].nreq = 0 /\ calls[p].conn = "None" /\ p \notin leases
         /\ calls'[p] # calls[p] =>
              /\ store' = store /\ leases' = leases
              /\ calls'[p].pc = "exit" => calls'[p].exc = "ValueError"
              /\ calls'[p].pc = "idle" =>
                   /\ calls[p].exc = "ValueError"
                   /\ lastOp'.exc = "ValueError" /\ lastOp'.nreq = 0
                   /\ lastOp'.closed = "None" /\ ~lastOp'.leased]_vars

\* A suspending save has failed with the configuration error on a saver
\* that has a blocking connection only, over a store that holds a record.
C12_Witness ==
  /\ lastOp.op = "aput" /\ lastOp.exc = "ValueError" /\ lastOp.nreq = 0
  /\ async_connection = "None"
  /\ store # EmptyStore

\* An object the serializer cannot encode: one of its items is a plain object.
Unencodable(obj) == \E i \in 1..Len(obj.v) : obj.v[i][2].t = "object"

RecordFields == {B("checkpoint"), B("metadata"), B("parent_ts")}

\* C13 (encode failure aborts): a save whose checkpoint or metadata cannot
\* be encoded ends with an error (the serializer's TypeError when the saver
\* has a connection), the store after it is the store before it, and no
\* record in the store ever holds only some of the three fields.
C13_EncodeFailureAborts ==
  [][(/\ lastOp'.op \in Puts
      /\ Unencodable(lastOp'.checkpoint) \/ Unencodable(lastOp'.metadata)) =>
       /\ lastOp'.ret.t = "error"
       /\ Usable(lastOp'.op) => lastOp'.ret = Error("TypeError")
       /\ store' = store
       /\ \A k \in DOMAIN store' : DOMAIN store'[k] = RecordFields]_vars

\* A save with metadata that cannot be encoded failed over a store that
\* already holds a record.
C13_Witness ==
  /\ lastOp.op \in Puts /\ lastOp.ret = Error("TypeError")
  /\ lastOp.metadata = BadMetadata
  /\ store # EmptyStore

\* The checkpoint and metadata texts of a stored record.
Pair(rec) == <<rec[B("checkpoint")], rec[B("metadata")]>>

\* C14 (immutability), as claimed: the checkpoint and metadata stored under
\* a key are the same after every step as before it.
C14_Immutable ==
  [][\A k \in DOMAIN store :
       k \in DOMAIN store' /\ Pair(store'[k]) = Pair(store[k])]_vars

\* C14, amended: the checkpoint and metadata stored under a key change only
\* by a save to that same key, which stores its own checkpoint and
\* metadata; a load of a saved (thread, version) returns the checkpoint
\* and metadata of the most recent save to that key.
C14_ImmutableUnlessResaved ==
  [][/\ \A k \in DOMAIN store :
          /\ k \in DOMAIN store'
          /\ Pair(store'[k]) # Pair(store[k]) =>
               /\ lastOp'.op \in Puts
               /\ k = KeyOf(lastOp'.config.thread_id,
                            Item(lastOp'.checkpoint, "ts").v)
               /\ Pair(store'[k]) = <<serde_dumps(lastOp'.checkpoint).val,
                                      serde_dumps(lastOp'.metadata).val>>
     /\ (/\ lastOp'.op \in Gets /\ Usable(lastOp'.op)
         /\ ThreadTs(lastOp'.config) # <<>>
         /\ KeyOf(lastOp'.config.thread_id, lastOp'.config.thread_ts)
              \in DOMAIN saved) =>
          LET s == saved[KeyOf(lastOp'.config.thread_id, lastOp'.config.thread_ts)]
          IN  /\ lastOp'.ret.t = "tuple"
              /\ lastOp'.ret.v.checkpoint = s.checkpoint
              /\ lastOp'.ret.v.metadata = s.metadata]_vars

\* Version "2" of thread a, saved with a parent, was loaded from a store
\* that holds another record too.
C14_Witness ==
  /\ lastOp.op \in Gets
  /\ lastOp.config = [thread_id |-> <<"a">>, thread_ts |-> <<"2">>]
  /\ lastOp.ret.t = "tuple"
  /\ lastOp.ret.v.checkpoint = Checkpoint(<<"2">>, 12)
  /\ lastOp.ret.v.metadata = Metadata(0)
  /\ Cardinality(DOMAIN store) > 1

\* C15 (no deletion): in every step of interleaved saves, loads and
\* listings, every key of the store stays; a step of a load or a listing
\* leaves the store as it is, and a step of a save changes at most the
\* record of the save's own key.
C15_NoDeletion ==
  [][/\ DOMAIN store \subseteq DOMAIN store'
     /\ \A p \in Procs :
          calls'[p] # calls[p] =>
            IF calls[p].op \in {"put", "aput"}
            THEN \A k \in DOMAIN store' :
                   k # KeyOf(calls[p].config.thread_id,
                             Item(calls[p].checkpoint, "ts").v)
                     => k \in DOMAIN store /\ store'[k] = store[k]
            ELSE store' = store]_vars

\* A load made of two requests has returned after two saves completed; both
\* records are in the store.
C15_Witness ==
  /\ lastOp.op \in {"get_tuple", "aget_tuple"} /\ lastOp.exc = ""
  /\ lastOp.nreq = 2
  /\ Cardinality(DOMAIN store) = 2
  /\ Cardinality(completed) = 2

\* The complete record of a save: its checkpoint, metadata and parent version.
RecordOf(config, checkpoint, metadata) ==
  [f \in RecordFields |->
     CASE f = B("checkpoint") -> serde_dumps(checkpoint).val
       [] f = B("metadata")   -> serde_dumps(metadata).val
       [] OTHER               -> ThreadTs(config)]

\* C16 (last write wins): with saves to one key in progress together, every
\* record in the store is, at every moment, the complete record of the save
\* whose write to its key was applied last (never fields of two saves, never
\* fewer than the three fields), and a tuple a load has read is the
\* checkpoint, metadata and parent of one single save.
C16_LastWriteWins ==
  /\ DOMAIN store = DOMAIN saved
  /\ \A k \in DOMAIN store :
       store[k] = RecordOf(saved[k].config, saved[k].checkpoint, saved[k].metadata)
  /\ \A p \in Procs :
       (calls[p].pc = "exit" /\ calls[p].ret.t = "tuple") =>
         \E i \in CallPuts :
           /\ calls[p].ret.v.checkpoint = i[2]
           /\ calls[p].ret.v.metadata = i[3]
           /\ calls[p].ret.v.parent_config =
                IF ThreadTs(i[1]) = <<>> THEN None
                ELSE [thread_id |-> i[1].thread_id, thread_ts |-> i[1].thread_ts]

\* Two saves of different checkpoints to the same key were in progress
\* together and both have written.
C16_Witness ==
  /\ \A p \in Procs :
       /\ calls[p].op \in {"put", "aput"} /\ calls[p].pc = "exit"
       /\ calls[p].exc = "" /\ calls[p].nreq = 1
       /\ Item(calls[p].checkpoint, "ts").v = <<"2">>
  /\ calls[1].checkpoint # calls[2].checkpoint
  /\ calls[1].began = {} /\ calls[2].began = {}

\* C17 (key scheme round trip), as claimed: the last colon-delimited segment
\* of the key built for a saved (thread, version) is that version.
C17_KeyRoundTrip ==
  \A k \in DOMAIN saved :
    LET ts == Item(saved[k].checkpoint, "ts").v
    IN  LastSegment(KeyOf(saved[k].config.thread_id, ts)) = ts

\* C18 (session isolation), as claimed: the checkpoint and metadata a load
\* for a session returns were saved under that session, and the keys the
\* enumeration pattern of a session selects were written by saves to it.
C18_SessionIsolation ==
  /\ (lastOp.op \in Gets /\ lastOp.ret.t = "tuple") =>
       \E k \in DOMAIN saved :
         /\ saved[k].config.thread_id = lastOp.config.thread_id
         /\ saved[k].checkpoint = lastOp.ret.v.checkpoint
         /\ saved[k].metadata = lastOp.ret.v.metadata
  /\ \A t \in SessionIds :
       \A k \in Keys(store, PatternOf(t)) : saved[k].config.thread_id = t

\* C19 (latest load under concurrent saves), as claimed: a load without
\* version that began after a save to its thread completed, and whose
\* requests were delivered, raises nothing, returns a tuple, and the version
\* of that tuple is at least every version whose save completed before the
\* load began.
C19_LatestUnderConcurrentSaves ==
  \A p \in Procs :
    (/\ calls[p].pc = "exit" /\ calls[p].op \in {"get_tuple", "aget_tuple"}
     /\ ThreadTs(calls[p].config) = <<>>
     /\ calls[p].began # {}
     /\ calls[p].exc \notin {"ConnectionError", "ValueError"})
    => /\ calls[p].exc = ""
       /\ calls[p].ret.t = "tuple"
       /\ \A k \in calls[p].began :
            StrLeq(Item(saved[k].checkpoint, "ts").v,
                   Item(calls[p].ret.v.checkpoint, "ts").v)

====
